---- MODULE Spec2Model ----
(***************************************************************************)
(* State-machine model of the newrev browser client: the React components  *)
(* ChatInterface, TestConnection, PrdGenerator, FileManager and            *)
(* PRDAnalyzer.                                                            *)
(*                                                                         *)
(* Each component is a set of useState cells plus the handlers that the    *)
(* component registers (socket / event-stream listeners, button handlers,  *)
(* continuations of awaited requests).  Text is a sequence of tokens, so   *)
(* that concatenation is \o and the empty string is <<>>.                  *)
(***************************************************************************)
EXTENDS Integers, Sequences, FiniteSets, TLC

(***************************************************************************)
(* Bounds of the exploration.                                              *)
(***************************************************************************)
MaxContent == 2      \* longest streaming buffer explored (tokens)
MaxMessages == 2     \* longest message history explored
MaxPending == 1      \* most requests of one kind in flight at once

(***************************************************************************)
(* Inputs.                                                                 *)
(***************************************************************************)
SESSION_ID == "session_1"            \* the client's own session
OtherSession == "session_2"          \* any other client's session
SessionIds == {SESSION_ID, OtherSession}

Undefined == "undefined"             \* a string field missing from a payload
\* an array/object field of a payload, which may be missing
Absent == [present |-> FALSE]
Present(v) == [present |-> TRUE, value |-> v]
\* JavaScript `x || []` on such a field
OrEmptyList(field) == IF field.present THEN field.value ELSE <<>>
ChunkInputs == {"a", "b", "", Undefined}

\* JavaScript `x || ''` on a chunk field, as text.
OrEmpty(c) == IF c = "" \/ c = Undefined THEN <<>> ELSE <<c>>

\* JavaScript truthiness of a string.
Truthy(s) == s # <<>>

\* String.prototype.trim on the inputs the model types.
Trim(s) == IF s = " " THEN "" ELSE s

\* Array.prototype.join(sep) as text.
RECURSIVE Join(_, _)
Join(xs, sep) ==
  IF xs = <<>> THEN <<>>
  ELSE IF Len(xs) = 1 THEN <<xs[1]>>
  ELSE <<xs[1], sep>> \o Join(Tail(xs), sep)

(***************************************************************************)
(* State.  One block of useState cells per component, plus the requests   *)
(* in flight and the values captured by registered closures.              *)
(***************************************************************************)
\* ChatInterface
VARIABLES
  ciVariant,           \* "socket" or "sse"
  ciMessages,          \* useState([])  messages
  ciInput,             \* useState('')  input
  ciIsLoading,         \* useState(false)
  ciIsInitializing,    \* useState(true)
  ciStreamingContent,  \* useState('')
  ciSubscribed,        \* streamingContent captured by the registered handlers
  ciInitPending,       \* api.initSession() not yet settled
  ciSendPending,       \* api.sendMessage() calls not yet settled
  ciDelivered,         \* history: chunks delivered since the last completion
  ciOpenAtSend,        \* history: how many of them the last send found buffered
  ciLast               \* history: the step taken last

ciState == <<ciMessages, ciInput, ciIsLoading, ciIsInitializing, ciStreamingContent>>
ciVars == <<ciVariant, ciMessages, ciInput, ciIsLoading, ciIsInitializing,
            ciStreamingContent, ciSubscribed, ciInitPending, ciSendPending,
            ciDelivered, ciOpenAtSend, ciLast>>

\* TestConnection
VARIABLES
  tcApiStatus,         \* useState(null)
  tcConnectionStatus,  \* useState('disconnected')
  tcMessages,          \* useState([])
  tcIsLoading,         \* useState(true)
  tcStreamingContent,  \* useState('')
  tcIsSending,         \* useState(false)
  tcSubscribed,        \* streamingContent captured by the registered handlers
  tcApiPending,        \* the test_connection fetch has not settled
  tcSendPending,       \* sendTestMessage() calls not yet settled
  tcLast               \* history: the step taken last

tcState == <<tcApiStatus, tcConnectionStatus, tcMessages, tcIsLoading,
             tcStreamingContent, tcIsSending>>
tcVars == <<tcApiStatus, tcConnectionStatus, tcMessages, tcIsLoading,
            tcStreamingContent, tcIsSending, tcSubscribed, tcApiPending,
            tcSendPending, tcLast>>

\* PrdGenerator
VARIABLES
  activeStep,          \* useState(0)
  projectDescription,  \* useState('')
  prd,                 \* useState('')
  tasks,               \* useState([])
  loading,             \* useState(false)
  pgStreamingContent,  \* useState('')  streamingContent
  pgError,             \* useState(null)  error
  taskResults,         \* useState([])
  executionStarted,    \* useState(false)
  executionComplete,   \* useState(false)
  pgPending,           \* requests not yet settled, per kind
  pgLast               \* history: the step taken last

pgState == <<activeStep, projectDescription, prd, tasks, loading,
             pgStreamingContent, pgError, taskResults, executionStarted,
             executionComplete>>
pgVars == <<activeStep, projectDescription, prd, tasks, loading,
            pgStreamingContent, pgError, taskResults, executionStarted,
            executionComplete, pgPending, pgLast>>

\* FileManager
VARIABLES
  files,               \* useState([])
  inchatFiles,         \* useState([])
  searchTerm,          \* useState("")
  fmIsLoading,         \* useState(true)  isLoading
  fmError,             \* useState(null)  error
  fmRendered,          \* inchatFiles as of the render whose handlers are on screen
  fmFetchPending,      \* api.getFiles() not yet settled
  fmRequests,          \* add/remove requests not yet settled
  serverInchat,        \* the file service's own in-chat set
  fmRapid,             \* history: per path, the toggles issued since the view was settled
  fmLast               \* history: the step taken last

fmState == <<files, inchatFiles, searchTerm, fmIsLoading, fmError>>
fmVars == <<files, inchatFiles, searchTerm, fmIsLoading, fmError, fmRendered,
            fmFetchPending, fmRequests, serverInchat, fmRapid, fmLast>>

\* PRDAnalyzer
VARIABLES
  paVariant,           \* "streaming" or "synchronous"
  paPrdContent,        \* useState('')  prdContent
  paNumTasks,          \* useState(5)  numTasks
  paIsProcessing,      \* useState(false)  isProcessing
  paActiveStep,        \* useState(0)  activeStep
  paProcessingStatus,  \* useState('')  processingStatus
  paTasks,             \* useState([])  tasks
  paError,             \* useState(null)  error
  paLoadingPRD,        \* useState(false)  loadingPRD (synchronous version)
  paLoadPending,       \* api.getPRDContent() not yet settled
  paPending,           \* api.generateTasksFromPRD() calls not yet settled
  paLast               \* history: the step taken last

paState == <<paPrdContent, paIsProcessing, paActiveStep, paProcessingStatus,
             paTasks, paError, paLoadingPRD>>
paVars == <<paVariant, paPrdContent, paNumTasks, paIsProcessing, paActiveStep,
            paProcessingStatus, paTasks, paError, paLoadingPRD, paLoadPending,
            paPending, paLast>>

vars == <<ciVars, tcVars, pgVars, fmVars, paVars>>
notCI == <<tcVars, pgVars, fmVars, paVars>>
notTC == <<ciVars, pgVars, fmVars, paVars>>
notPG == <<ciVars, tcVars, fmVars, paVars>>
notFM == <<ciVars, tcVars, pgVars, paVars>>
notPA == <<ciVars, tcVars, pgVars, fmVars>>

(***************************************************************************)
(* ChatInterface (client/src/components/ChatInterface.jsx).  The file      *)
(* holds the component twice: the socket.io version and the event-stream   *)
(* version; ciVariant says which one is mounted.                           *)
(***************************************************************************)

CIInputs == {"", " ", "hi"}
CIFiles == {<<"f1">>, <<"f1", "f2">>}
CIHistories == {Absent, Present(<<>>), Present(<<[role |-> "user", content |-> <<"old">>]>>)}
CIErrorMessages == {"boom"}

Msg(r, c) == [role |-> r, content |-> c]

CIInit ==
  /\ ciVariant \in {"socket", "sse"}
  /\ ciMessages = <<>>
  /\ ciInput = ""
  /\ ciIsLoading = FALSE
  /\ ciIsInitializing = TRUE
  /\ ciStreamingContent = <<>>
  /\ ciSubscribed = <<>>
  /\ ciInitPending = TRUE
  /\ ciSendPending = 0
  /\ ciDelivered = <<>>
  /\ ciOpenAtSend = 0
  /\ ciLast = [kind |-> "mount", session_id |-> SESSION_ID]

\* initSession effect: the awaited response arrives.
CI_initSession(outcome, history) ==
  /\ ciInitPending
  /\ ciInitPending' = FALSE
  /\ ciMessages' = IF outcome = "success"
                   THEN OrEmptyList(history)
                   ELSE ciMessages
  /\ ciIsInitializing' = FALSE
  /\ UNCHANGED <<ciInput, ciIsLoading, ciStreamingContent>>

\* handleMessageChunk
CI_handleMessageChunk(data) ==
  /\ ciStreamingContent' =
       IF data.session_id = SESSION_ID
       THEN ciStreamingContent \o OrEmpty(data.chunk)
       ELSE ciStreamingContent
  /\ UNCHANGED <<ciMessages, ciInput, ciIsLoading, ciIsInitializing>>

\* handleMessageComplete: `streamingContent` is the value the handler closed
\* over when the effect last ran, not the current state.
CI_handleMessageComplete(data) ==
  IF data.session_id = SESSION_ID
  THEN /\ ciMessages' =
            IF ciVariant = "socket" \/ Truthy(ciSubscribed)
            THEN Append(ciMessages, Msg("assistant", ciSubscribed))
            ELSE ciMessages
       /\ ciStreamingContent' = <<>>
       /\ ciIsLoading' = FALSE
       /\ UNCHANGED <<ciInput, ciIsInitializing>>
  ELSE UNCHANGED ciState

\* handleFilesEdited
CI_handleFilesEdited(data) ==
  /\ ciMessages' =
       IF data.session_id = SESSION_ID
       THEN Append(ciMessages,
                   Msg("info", <<"Files edited: ">> \o Join(data.files, ", ")))
       ELSE ciMessages
  /\ UNCHANGED <<ciInput, ciIsLoading, ciIsInitializing, ciStreamingContent>>

\* handleCommit
CI_handleCommit(data) ==
  /\ ciMessages' =
       IF data.session_id = SESSION_ID
       THEN Append(ciMessages,
                   [role |-> "commit",
                    content |-> <<"Commit: ", data.hash, "\nMessage: ", data.message>>,
                    hash |-> data.hash, message |-> data.message, diff |-> data.diff])
       ELSE ciMessages
  /\ UNCHANGED <<ciInput, ciIsLoading, ciIsInitializing, ciStreamingContent>>

\* handleError (event-stream version only; the socket version registers no
\* 'error' listener on the component)
CI_handleError(data) ==
  IF data.session_id = SESSION_ID
  THEN /\ ciMessages' = Append(ciMessages, Msg("error", <<data.message>>))
       /\ ciIsLoading' = FALSE
       /\ UNCHANGED <<ciInput, ciIsInitializing, ciStreamingContent>>
  ELSE UNCHANGED ciState

\* handleSendMessage up to the await
CI_handleSendMessage ==
  /\ ~(Trim(ciInput) = "" \/ ciIsLoading)
  /\ ciInput' = ""
  /\ ciIsLoading' = TRUE
  /\ ciMessages' = Append(ciMessages, Msg("user", <<ciInput>>))
  /\ ciSendPending' = ciSendPending + 1
  /\ UNCHANGED <<ciIsInitializing, ciStreamingContent>>

\* handleSendMessage after the await: resolve, or the catch block
CI_sendMessageSettled(ok) ==
  /\ ciSendPending > 0
  /\ ciSendPending' = ciSendPending - 1
  /\ IF ok
     THEN UNCHANGED <<ciMessages, ciIsLoading>>
     ELSE /\ ciIsLoading' = FALSE
          /\ ciMessages' = Append(ciMessages,
               Msg("error", <<"Failed to send message. Please try again.">>))
  /\ UNCHANGED <<ciInput, ciIsInitializing, ciStreamingContent>>

(* ---- steps of the ChatInterface state machine ---- *)

CIRoom == Len(ciMessages) < MaxMessages

CIInitSessionSettles ==
  /\ \E outcome \in {"success", "error", "throw"}, history \in CIHistories :
       CI_initSession(outcome, history)
  /\ ciLast' = [kind |-> "init", session_id |-> SESSION_ID]
  /\ UNCHANGED <<ciVariant, ciSubscribed, ciSendPending, ciDelivered,
                 ciOpenAtSend>>
  /\ UNCHANGED notCI

CIMessageChunk ==
  /\ \E sid \in SessionIds, c \in ChunkInputs :
       /\ Len(ciStreamingContent) < MaxContent
       /\ CI_handleMessageChunk([session_id |-> sid, chunk |-> c])
       /\ ciDelivered' = IF sid = SESSION_ID
                         THEN ciDelivered \o OrEmpty(c) ELSE ciDelivered
       /\ ciLast' = [kind |-> "message_chunk", session_id |-> sid]
  /\ UNCHANGED <<ciVariant, ciSubscribed, ciInitPending, ciSendPending,
                 ciOpenAtSend>>
  /\ UNCHANGED notCI

CIMessageComplete ==
  /\ CIRoom
  /\ \E sid \in SessionIds :
       /\ CI_handleMessageComplete([session_id |-> sid])
       /\ ciDelivered' = IF sid = SESSION_ID THEN <<>> ELSE ciDelivered
       /\ ciOpenAtSend' = IF sid = SESSION_ID THEN 0 ELSE ciOpenAtSend
       /\ ciLast' = [kind |-> "message_complete", session_id |-> sid]
  /\ UNCHANGED <<ciVariant, ciSubscribed, ciInitPending, ciSendPending>>
  /\ UNCHANGED notCI

CIFilesEdited ==
  /\ CIRoom
  /\ \E sid \in SessionIds, fs \in CIFiles :
       /\ CI_handleFilesEdited([session_id |-> sid, files |-> fs])
       /\ ciLast' = [kind |-> "files_edited", session_id |-> sid]
  /\ UNCHANGED <<ciVariant, ciSubscribed, ciInitPending, ciSendPending,
                 ciDelivered, ciOpenAtSend>>
  /\ UNCHANGED notCI

CICommit ==
  /\ CIRoom
  /\ \E sid \in SessionIds :
       /\ CI_handleCommit([session_id |-> sid, hash |-> "abc123",
                           message |-> "fix", diff |-> "+1"])
       /\ ciLast' = [kind |-> "commit", session_id |-> sid]
  /\ UNCHANGED <<ciVariant, ciSubscribed, ciInitPending, ciSendPending,
                 ciDelivered, ciOpenAtSend>>
  /\ UNCHANGED notCI

\* an error event of the stream; the socket version has no listener for it
CIError ==
  /\ CIRoom
  /\ \E sid \in SessionIds, m \in CIErrorMessages :
       /\ IF ciVariant = "sse"
          THEN CI_handleError([session_id |-> sid, message |-> m])
          ELSE UNCHANGED ciState
       /\ ciLast' = [kind |-> "error", session_id |-> sid]
  /\ UNCHANGED <<ciVariant, ciSubscribed, ciInitPending, ciSendPending,
                 ciDelivered, ciOpenAtSend>>
  /\ UNCHANGED notCI

\* useEffect(..., [streamingContent]): after a render in which
\* streamingContent changed, the handlers are replaced by ones closed over
\* the new value.
CIResubscribe ==
  /\ ciSubscribed # ciStreamingContent
  /\ ciSubscribed' = ciStreamingContent
  /\ ciLast' = [kind |-> "resubscribe", session_id |-> SESSION_ID]
  /\ UNCHANGED <<ciVariant, ciState, ciInitPending, ciSendPending,
                 ciDelivered, ciOpenAtSend>>
  /\ UNCHANGED notCI

CITypeInput ==
  /\ ~ciIsInitializing
  /\ ~ciIsLoading
  /\ \E s \in CIInputs : s # ciInput /\ ciInput' = s
  /\ ciLast' = [kind |-> "type", session_id |-> SESSION_ID]
  /\ UNCHANGED <<ciVariant, ciMessages, ciIsLoading, ciIsInitializing,
                 ciStreamingContent, ciSubscribed, ciInitPending,
                 ciSendPending, ciDelivered, ciOpenAtSend>>
  /\ UNCHANGED notCI

CISubmit ==
  /\ CIRoom
  /\ ~ciIsInitializing
  /\ ciSendPending < MaxPending
  /\ CI_handleSendMessage
  /\ ciOpenAtSend' = Len(ciDelivered)
  /\ ciLast' = [kind |-> "send", session_id |-> SESSION_ID]
  /\ UNCHANGED <<ciVariant, ciSubscribed, ciInitPending, ciDelivered>>
  /\ UNCHANGED notCI

CISendSettles ==
  /\ CIRoom
  /\ \E ok \in BOOLEAN :
       /\ CI_sendMessageSettled(ok)
       /\ ciLast' = [kind |-> IF ok THEN "send_settled" ELSE "send_failed",
                     session_id |-> SESSION_ID]
  /\ UNCHANGED <<ciVariant, ciSubscribed, ciInitPending, ciDelivered,
                 ciOpenAtSend>>
  /\ UNCHANGED notCI

CINext ==
  \/ CIInitSessionSettles
  \/ CIMessageChunk
  \/ CIMessageComplete
  \/ CIFilesEdited
  \/ CICommit
  \/ CIError
  \/ CIResubscribe
  \/ CITypeInput
  \/ CISubmit
  \/ CISendSettles


(***************************************************************************)
(* TestConnection (client/src/components/TestConnection.jsx).              *)
(***************************************************************************)

TCInit ==
  /\ tcApiStatus = "null"
  /\ tcConnectionStatus = "disconnected"
  /\ tcMessages = <<>>
  /\ tcIsLoading = TRUE
  /\ tcStreamingContent = <<>>
  /\ tcIsSending = FALSE
  /\ tcSubscribed = <<>>
  /\ tcApiPending = TRUE
  /\ tcSendPending = 0
  /\ tcLast = [kind |-> "mount", session_id |-> SESSION_ID]

\* testApiConnection: the fetch settles (response body, or the catch block)
TC_testApiConnection(status) ==
  /\ tcApiPending
  /\ tcApiPending' = FALSE
  /\ tcApiStatus' = status
  /\ tcIsLoading' = FALSE
  /\ UNCHANGED <<tcConnectionStatus, tcMessages, tcStreamingContent, tcIsSending>>

\* handleConnected
TC_handleConnected(data) ==
  /\ tcConnectionStatus' = "connected"
  /\ UNCHANGED <<tcApiStatus, tcMessages, tcIsLoading, tcStreamingContent, tcIsSending>>

\* handleMessageChunk: no session_id test
TC_handleMessageChunk(data) ==
  /\ tcStreamingContent' =
       IF Truthy(OrEmpty(data.chunk))
       THEN tcStreamingContent \o <<data.chunk>>
       ELSE tcStreamingContent
  /\ UNCHANGED <<tcApiStatus, tcConnectionStatus, tcMessages, tcIsLoading, tcIsSending>>

\* handleMessageComplete: no session_id test; `streamingContent` is the
\* value captured when the effect last ran.
TC_handleMessageComplete ==
  /\ IF Truthy(tcSubscribed)
     THEN /\ tcMessages' = Append(tcMessages, tcSubscribed)
          /\ tcStreamingContent' = <<>>
     ELSE UNCHANGED <<tcMessages, tcStreamingContent>>
  /\ tcIsSending' = FALSE
  /\ UNCHANGED <<tcApiStatus, tcConnectionStatus, tcIsLoading>>

\* handleError
TC_handleError(data) ==
  /\ tcConnectionStatus' = "error"
  /\ tcIsSending' = FALSE
  /\ UNCHANGED <<tcApiStatus, tcMessages, tcIsLoading, tcStreamingContent>>

\* handleSendTestMessage up to the await
TC_handleSendTestMessage ==
  /\ tcConnectionStatus = "connected"
  /\ tcIsSending' = TRUE
  /\ tcStreamingContent' = <<>>
  /\ tcSendPending' = tcSendPending + 1
  /\ UNCHANGED <<tcApiStatus, tcConnectionStatus, tcMessages, tcIsLoading>>

\* handleSendTestMessage after the await
TC_sendTestMessageSettled(ok) ==
  /\ tcSendPending > 0
  /\ tcSendPending' = tcSendPending - 1
  /\ tcIsSending' = IF ok THEN tcIsSending ELSE FALSE
  /\ UNCHANGED <<tcApiStatus, tcConnectionStatus, tcMessages, tcIsLoading,
                 tcStreamingContent>>

(* ---- steps of the TestConnection state machine ---- *)

TCApiTestSettles ==
  /\ \E status \in {"success", "error"} : TC_testApiConnection(status)
  /\ tcLast' = [kind |-> "api_test", session_id |-> SESSION_ID]
  /\ UNCHANGED <<tcSubscribed, tcSendPending>>
  /\ UNCHANGED notTC

TCConnected ==
  /\ \E sid \in SessionIds :
       /\ TC_handleConnected([session_id |-> sid])
       /\ tcLast' = [kind |-> "connected", session_id |-> sid]
  /\ UNCHANGED <<tcSubscribed, tcApiPending, tcSendPending>>
  /\ UNCHANGED notTC

TCMessageChunk ==
  /\ Len(tcStreamingContent) < MaxContent
  /\ \E sid \in SessionIds, c \in ChunkInputs :
       /\ TC_handleMessageChunk([session_id |-> sid, chunk |-> c])
       /\ tcLast' = [kind |-> "message_chunk", session_id |-> sid]
  /\ UNCHANGED <<tcSubscribed, tcApiPending, tcSendPending>>
  /\ UNCHANGED notTC

TCMessageComplete ==
  /\ Len(tcMessages) < MaxMessages
  /\ \E sid \in SessionIds :
       /\ TC_handleMessageComplete
       /\ tcLast' = [kind |-> "message_complete", session_id |-> sid]
  /\ UNCHANGED <<tcSubscribed, tcApiPending, tcSendPending>>
  /\ UNCHANGED notTC

TCError ==
  /\ \E sid \in SessionIds :
       /\ TC_handleError([session_id |-> sid])
       /\ tcLast' = [kind |-> "error", session_id |-> sid]
  /\ UNCHANGED <<tcSubscribed, tcApiPending, tcSendPending>>
  /\ UNCHANGED notTC

\* useEffect(..., [streamingContent])
TCResubscribe ==
  /\ tcSubscribed # tcStreamingContent
  /\ tcSubscribed' = tcStreamingContent
  /\ tcLast' = [kind |-> "resubscribe", session_id |-> SESSION_ID]
  /\ UNCHANGED <<tcState, tcApiPending, tcSendPending>>
  /\ UNCHANGED notTC

\* the Send Test Message button (disabled unless connected and not sending)
TCClickSend ==
  /\ ~tcIsSending
  /\ tcSendPending < MaxPending
  /\ TC_handleSendTestMessage
  /\ tcLast' = [kind |-> "send", session_id |-> SESSION_ID]
  /\ UNCHANGED <<tcSubscribed, tcApiPending>>
  /\ UNCHANGED notTC

TCSendSettles ==
  /\ \E ok \in BOOLEAN : TC_sendTestMessageSettled(ok)
  /\ tcLast' = [kind |-> "send_settled", session_id |-> SESSION_ID]
  /\ UNCHANGED <<tcSubscribed, tcApiPending>>
  /\ UNCHANGED notTC

TCNext ==
  \/ TCApiTestSettles
  \/ TCConnected
  \/ TCMessageChunk
  \/ TCMessageComplete
  \/ TCError
  \/ TCResubscribe
  \/ TCClickSend
  \/ TCSendSettles


(***************************************************************************)
(* PrdGenerator (the component at the end of client/src/services/api.js).  *)
(* Its listeners are registered once (effect with no dependencies) and     *)
(* touch state only through setters.                                       *)
(***************************************************************************)
MaxResults == 2      \* longest taskResults list explored
MaxResultLen == 2    \* longest streamed task result explored (tokens)

NoError == "null"
Descriptions == {"", " ", "todo app"}
PrdTexts == {<<>>, <<"a", "b">>, <<"c">>}
TaskNames == {"A", "B"}
TaskChunkInputs == {"a", "", Undefined}
\* the chunk fields of prd_chunk and of tasks_chunk: the two streams carry
\* different text
PrdChunkInputs == {"p", "", Undefined}
TaskListChunkInputs == {"t", "", Undefined}
TaskLists == {<<[name |-> "A"]>>, <<[name |-> "A"], [name |-> "B"]>>}
\* payloads of tasks_complete: {tasks: {tasks: [...]}}, {tasks: {}},
\* {tasks_text: "..."}, {tasks_text: ""}, {}
TasksPayloads ==
  {[tasks |-> Present([tasks |-> Present(l)]), tasks_text |-> Undefined] :
      l \in TaskLists \cup {<<>>}}
  \cup {[tasks |-> Present([tasks |-> Absent]), tasks_text |-> Undefined]}
  \cup {[tasks |-> Absent, tasks_text |-> t] : t \in {"not json", "", Undefined}}
TaskResultsPayloads ==
  {[task_name |-> n, result |-> <<"done">>, commit_hash |-> "abc123",
    commit_message |-> "msg", edited_files |-> <<"f1">>] : n \in TaskNames}

PGInit ==
  /\ activeStep = 0
  /\ projectDescription = ""
  /\ prd = <<>>
  /\ tasks = <<>>
  /\ loading = FALSE
  /\ pgStreamingContent = <<>>
  /\ pgError = NoError
  /\ taskResults = <<>>
  /\ executionStarted = FALSE
  /\ executionComplete = FALSE
  /\ pgPending = [k \in {"generatePRD", "generateTasks", "executeTasks"} |-> 0]
  /\ pgLast = [kind |-> "other", session_id |-> SESSION_ID, data |-> Absent]

\* Array.prototype.findIndex(r => r.task_name === name); 0 stands for -1
FindIndex(results, name) ==
  IF \E i \in 1..Len(results) : results[i].task_name = name
  THEN CHOOSE i \in 1..Len(results) :
         /\ results[i].task_name = name
         /\ \A j \in 1..(i - 1) : results[j].task_name # name
  ELSE 0

\* `result += data.chunk`: string concatenation, a missing chunk reads "undefined"
PlusChunk(text, c) == IF c = "" THEN text ELSE text \o <<c>>

\* handlePrdChunk
PG_handlePrdChunk(data) ==
  /\ pgStreamingContent' =
       IF data.session_id = SESSION_ID
       THEN pgStreamingContent \o OrEmpty(data.chunk)
       ELSE pgStreamingContent
  /\ UNCHANGED <<activeStep, projectDescription, prd, tasks, loading, pgError,
                 taskResults, executionStarted, executionComplete>>

\* handlePrdComplete, were it to keep a streamed PRD in preference to the payload
PG_handlePrdComplete_PrefersBuffer(data) ==
  IF data.session_id = SESSION_ID
  THEN /\ prd' = IF Truthy(pgStreamingContent) THEN pgStreamingContent ELSE data.prd
       /\ loading' = FALSE
       /\ activeStep' = 2
       /\ UNCHANGED <<projectDescription, tasks, pgStreamingContent, pgError,
                      taskResults, executionStarted, executionComplete>>
  ELSE UNCHANGED pgState

\* handlePrdComplete
PG_handlePrdComplete(data) ==
  IF data.session_id = SESSION_ID
  THEN /\ prd' = data.prd
       /\ loading' = FALSE
       /\ activeStep' = 2
       /\ UNCHANGED <<projectDescription, tasks, pgStreamingContent, pgError,
                      taskResults, executionStarted, executionComplete>>
  ELSE UNCHANGED pgState

\* handleTasksChunk
PG_handleTasksChunk(data) ==
  /\ pgStreamingContent' =
       IF data.session_id = SESSION_ID
       THEN pgStreamingContent \o OrEmpty(data.chunk)
       ELSE pgStreamingContent
  /\ UNCHANGED <<activeStep, projectDescription, prd, tasks, loading, pgError,
                 taskResults, executionStarted, executionComplete>>

\* handleTasksComplete
PG_handleTasksComplete(data) ==
  IF data.session_id = SESSION_ID
  THEN /\ IF data.tasks.present
          THEN /\ tasks' = OrEmptyList(data.tasks.value.tasks)
               /\ UNCHANGED <<pgError, pgStreamingContent>>
          ELSE IF Truthy(OrEmpty(data.tasks_text))
          THEN /\ pgError' = "Tasks were generated but not in the expected format"
               /\ pgStreamingContent' = <<data.tasks_text>>
               /\ UNCHANGED tasks
          ELSE UNCHANGED <<tasks, pgError, pgStreamingContent>>
       /\ loading' = FALSE
       /\ activeStep' = 3
       /\ UNCHANGED <<projectDescription, prd, taskResults, executionStarted,
                      executionComplete>>
  ELSE UNCHANGED pgState

\* handleTaskStarted
PG_handleTaskStarted(data) ==
  /\ taskResults' =
       IF data.session_id = SESSION_ID
       THEN Append(taskResults,
                   [task_name |-> data.task_name, description |-> data.description,
                    result |-> <<>>, status |-> "running"])
       ELSE taskResults
  /\ UNCHANGED <<activeStep, projectDescription, prd, tasks, loading,
                 pgStreamingContent, pgError, executionStarted, executionComplete>>

\* the updater handleTaskChunk passes to setTaskResults
TaskChunkUpdater(prev, data) ==
  LET index == FindIndex(prev, data.task_name)
  IN IF index # 0
     THEN [prev EXCEPT ![index].result = PlusChunk(@, data.chunk)]
     ELSE prev

\* what prev holds after one invocation of that updater: [...prev] copies
\* the array, not its entries, so `updatedResults[index].result +=` writes
\* the object prev[index] refers to as well
TaskChunkPrevAfter(prev, data) == TaskChunkUpdater(prev, data)

\* how often React invokes a state updater: once in a production build,
\* twice in a development build under <React.StrictMode>
UpdaterInvocations == {1, 2}

\* the value returned by the last of n invocations of the updater on the
\* same prev
RECURSIVE TaskChunkInvoked(_, _, _)
TaskChunkInvoked(prev, data, n) ==
  IF n = 1 THEN TaskChunkUpdater(prev, data)
  ELSE TaskChunkInvoked(TaskChunkPrevAfter(prev, data), data, n - 1)

\* handleTaskChunk, its updater invoked n times
PG_handleTaskChunk(data, n) ==
  /\ taskResults' =
       IF data.session_id = SESSION_ID
       THEN TaskChunkInvoked(taskResults, data, n)
       ELSE taskResults
  /\ UNCHANGED <<activeStep, projectDescription, prd, tasks, loading,
                 pgStreamingContent, pgError, executionStarted, executionComplete>>

\* the handleTaskCompleted updater, were it to append the final text to the
\* streamed text instead of replacing the entry
TaskCompletedUpdater_Concatenates(prev, data) ==
  LET index == FindIndex(prev, data.task_result.task_name)
  IN IF index # 0
     THEN [prev EXCEPT ![index] =
             [task_name |-> data.task_result.task_name,
              result |-> prev[index].result \o data.task_result.result,
              commit_hash |-> data.task_result.commit_hash,
              commit_message |-> data.task_result.commit_message,
              edited_files |-> data.task_result.edited_files,
              status |-> "completed"]]
     ELSE prev

\* the updater handleTaskCompleted passes to setTaskResults:
\* the entry becomes {...data.task_result, status: 'completed'}
TaskCompletedUpdater(prev, data) ==
  LET index == FindIndex(prev, data.task_result.task_name)
  IN IF index # 0
     THEN [prev EXCEPT ![index] =
             [task_name |-> data.task_result.task_name,
              result |-> data.task_result.result,
              commit_hash |-> data.task_result.commit_hash,
              commit_message |-> data.task_result.commit_message,
              edited_files |-> data.task_result.edited_files,
              status |-> "completed"]]
     ELSE prev

\* handleTaskCompleted
PG_handleTaskCompleted(data) ==
  /\ taskResults' =
       IF data.session_id = SESSION_ID
       THEN TaskCompletedUpdater(taskResults, data)
       ELSE taskResults
  /\ UNCHANGED <<activeStep, projectDescription, prd, tasks, loading,
                 pgStreamingContent, pgError, executionStarted, executionComplete>>

\* handleTasksExecutionStarted
PG_handleTasksExecutionStarted(data) ==
  /\ executionStarted' = IF data.session_id = SESSION_ID THEN TRUE
                         ELSE executionStarted
  /\ UNCHANGED <<activeStep, projectDescription, prd, tasks, loading,
                 pgStreamingContent, pgError, taskResults, executionComplete>>

\* a handleTasksExecutionCompleted that opens the results view
PG_handleTasksExecutionCompleted_ShowsResults(data) ==
  IF data.session_id = SESSION_ID
  THEN /\ executionComplete' = TRUE
       /\ loading' = FALSE
       /\ activeStep' = 4
       /\ UNCHANGED <<projectDescription, prd, tasks,
                      pgStreamingContent, pgError, taskResults, executionStarted>>
  ELSE UNCHANGED pgState

\* handleTasksExecutionCompleted
PG_handleTasksExecutionCompleted(data) ==
  IF data.session_id = SESSION_ID
  THEN /\ executionComplete' = TRUE
       /\ loading' = FALSE
       /\ UNCHANGED <<activeStep, projectDescription, prd, tasks,
                      pgStreamingContent, pgError, taskResults, executionStarted>>
  ELSE UNCHANGED pgState

\* handleGeneratePRD up to the await
PG_handleGeneratePRD ==
  /\ Trim(projectDescription) # ""
  /\ loading' = TRUE
  /\ pgError' = NoError
  /\ pgStreamingContent' = <<>>
  /\ pgPending' = [pgPending EXCEPT !["generatePRD"] = @ + 1]
  /\ UNCHANGED <<activeStep, projectDescription, prd, tasks, taskResults,
                 executionStarted, executionComplete>>

\* handleGenerateTasks up to the await
PG_handleGenerateTasks ==
  /\ Truthy(prd)
  /\ loading' = TRUE
  /\ pgError' = NoError
  /\ pgStreamingContent' = <<>>
  /\ pgPending' = [pgPending EXCEPT !["generateTasks"] = @ + 1]
  /\ UNCHANGED <<activeStep, projectDescription, prd, tasks, taskResults,
                 executionStarted, executionComplete>>

\* handleExecuteTasks up to the await
PG_handleExecuteTasks ==
  /\ Len(tasks) # 0
  /\ loading' = TRUE
  /\ pgError' = NoError
  /\ taskResults' = <<>>
  /\ executionStarted' = FALSE
  /\ executionComplete' = FALSE
  /\ pgPending' = [pgPending EXCEPT !["executeTasks"] = @ + 1]
  /\ UNCHANGED <<activeStep, projectDescription, prd, tasks, pgStreamingContent>>

\* the three handlers after their await: nothing on success, the catch
\* block on a rejected request
PG_requestSettled(kind, ok) ==
  /\ pgPending[kind] > 0
  /\ pgPending' = [pgPending EXCEPT ![kind] = @ - 1]
  /\ IF ok
     THEN UNCHANGED <<pgError, loading>>
     ELSE /\ pgError' = CASE kind = "generatePRD" -> "Error generating PRD: Network Error"
                          [] kind = "generateTasks" -> "Error generating tasks: Network Error"
                          [] kind = "executeTasks" -> "Error executing tasks: Network Error"
          /\ loading' = FALSE
  /\ UNCHANGED <<activeStep, projectDescription, prd, tasks, pgStreamingContent,
                 taskResults, executionStarted, executionComplete>>

(* ---- steps of the PrdGenerator state machine ---- *)

\* the history names the completion events of the client's own session and
\* keeps their payload; of a task_chunk it keeps the task name
PGEvent(kind, data) ==
  IF data.session_id # SESSION_ID
  THEN [kind |-> "foreign", session_id |-> data.session_id, data |-> Absent]
  ELSE IF kind \in {"prd_complete", "tasks_complete", "task_completed"}
  THEN [kind |-> kind, session_id |-> data.session_id, data |-> data]
  ELSE IF kind = "task_chunk"
  THEN [kind |-> kind, session_id |-> data.session_id,
        data |-> [task_name |-> data.task_name]]
  ELSE [kind |-> "other", session_id |-> data.session_id, data |-> Absent]
PGUser(kind) == [kind |-> "other", session_id |-> SESSION_ID, data |-> Absent]
\* the catch block of a button handler ran last
PGFailed(kind) ==
  [kind |-> "request_failed", session_id |-> SESSION_ID, data |-> [operation |-> kind]]

PGPrdChunk ==
  /\ Len(pgStreamingContent) < MaxContent
  /\ \E sid \in SessionIds, c \in PrdChunkInputs :
       LET data == [session_id |-> sid, chunk |-> c]
       IN /\ PG_handlePrdChunk(data)
          /\ pgLast' = PGEvent("prd_chunk", data)
  /\ UNCHANGED <<pgPending, notPG>>

PGPrdComplete ==
  /\ \E sid \in SessionIds, text \in PrdTexts :
       LET data == [session_id |-> sid, prd |-> text]
       IN /\ PG_handlePrdComplete(data)
          /\ pgLast' = PGEvent("prd_complete", data)
  /\ UNCHANGED <<pgPending, notPG>>

PGTasksChunk ==
  /\ Len(pgStreamingContent) < MaxContent
  /\ \E sid \in SessionIds, c \in TaskListChunkInputs :
       LET data == [session_id |-> sid, chunk |-> c]
       IN /\ PG_handleTasksChunk(data)
          /\ pgLast' = PGEvent("tasks_chunk", data)
  /\ UNCHANGED <<pgPending, notPG>>

PGTasksComplete ==
  /\ \E sid \in SessionIds, payload \in TasksPayloads :
       LET data == [session_id |-> sid, tasks |-> payload.tasks,
                    tasks_text |-> payload.tasks_text]
       IN /\ PG_handleTasksComplete(data)
          /\ pgLast' = PGEvent("tasks_complete", data)
  /\ UNCHANGED <<pgPending, notPG>>

PGTaskStarted ==
  /\ Len(taskResults) < MaxResults
  /\ \E sid \in SessionIds, n \in TaskNames :
       LET data == [session_id |-> sid, task_name |-> n, description |-> "d"]
       IN /\ PG_handleTaskStarted(data)
          /\ pgLast' = PGEvent("task_started", data)
  /\ UNCHANGED <<pgPending, notPG>>

PGTaskChunk ==
  /\ \E sid \in SessionIds, n \in TaskNames, c \in TaskChunkInputs,
        k \in UpdaterInvocations :
       LET data == [session_id |-> sid, task_name |-> n, chunk |-> c]
       IN /\ \A i \in 1..Len(taskResults) :
               Len(taskResults[i].result) + k <= MaxResultLen
          /\ PG_handleTaskChunk(data, k)
          /\ pgLast' = PGEvent("task_chunk", data)
  /\ UNCHANGED <<pgPending, notPG>>

PGTaskCompleted ==
  /\ \E sid \in SessionIds, r \in TaskResultsPayloads :
       LET data == [session_id |-> sid, task_result |-> r]
       IN /\ PG_handleTaskCompleted(data)
          /\ pgLast' = IF sid = SESSION_ID /\ FindIndex(taskResults, r.task_name) # 0
                       THEN [kind |-> "task_completed", session_id |-> sid, data |-> data,
                             streamed |-> taskResults[FindIndex(taskResults, r.task_name)].result]
                       ELSE PGEvent("task_completed", data)
  /\ UNCHANGED <<pgPending, notPG>>

PGTasksExecutionStarted ==
  /\ \E sid \in SessionIds :
       LET data == [session_id |-> sid]
       IN /\ PG_handleTasksExecutionStarted(data)
          /\ pgLast' = PGEvent("tasks_execution_started", data)
  /\ UNCHANGED <<pgPending, notPG>>

PGTasksExecutionCompleted ==
  /\ \E sid \in SessionIds :
       LET data == [session_id |-> sid]
       IN /\ PG_handleTasksExecutionCompleted(data)
          /\ pgLast' = PGEvent("tasks_execution_completed", data)
  /\ UNCHANGED <<pgPending, notPG>>

PGInFlight ==
  pgPending["generatePRD"] + pgPending["generateTasks"] + pgPending["executeTasks"]

\* the description TextField of step 0 (disabled while loading)
PGTypeDescription ==
  /\ activeStep = 0
  /\ ~loading
  /\ \E d \in Descriptions : d # projectDescription /\ projectDescription' = d
  /\ pgLast' = PGUser("type")
  /\ UNCHANGED <<activeStep, prd, tasks, loading, pgStreamingContent, pgError,
                 taskResults, executionStarted, executionComplete, pgPending, notPG>>

\* the Generate PRD button of step 0
PGClickGeneratePRD ==
  /\ activeStep = 0
  /\ ~(loading \/ Trim(projectDescription) = "")
  /\ PGInFlight < MaxPending
  /\ PG_handleGeneratePRD
  /\ pgLast' = PGUser("generatePRD")
  /\ UNCHANGED notPG

\* the Generate Tasks button of step 2
PGClickGenerateTasks ==
  /\ activeStep = 2
  /\ ~(loading \/ ~Truthy(prd))
  /\ PGInFlight < MaxPending
  /\ PG_handleGenerateTasks
  /\ pgLast' = PGUser("generateTasks")
  /\ UNCHANGED notPG

\* the Execute Tasks button of step 3
PGClickExecuteTasks ==
  /\ activeStep = 3
  /\ Len(tasks) > 0
  /\ ~(loading \/ Len(tasks) = 0)
  /\ PGInFlight < MaxPending
  /\ PG_handleExecuteTasks
  /\ pgLast' = PGUser("executeTasks")
  /\ UNCHANGED notPG

PGRequestSettles ==
  /\ \E kind \in DOMAIN pgPending, ok \in BOOLEAN :
       /\ PG_requestSettled(kind, ok)
       /\ pgLast' = IF ok THEN PGUser("settled") ELSE PGFailed(kind)
  /\ UNCHANGED notPG

(***************************************************************************)
(* FileManager (unnamed/part_001; the same handlers open                   *)
(* client/src/components/FileManager.jsx).  Paths and search terms are     *)
(* sequences of characters.                                                *)
(***************************************************************************)
MaxRequests == 2     \* most add/remove requests in flight at once
MaxInchat == 2       \* longest inchatFiles list explored
MaxCounted == 3      \* the toggle history counts up to here ("many")

Counted(n) == IF n < MaxCounted THEN n + 1 ELSE MaxCounted

ServerFiles == << <<"A", "b">>, <<"b">> >>     \* all_files of the repository
Paths == {ServerFiles[i] : i \in 1..Len(ServerFiles)}
SearchTerms == {<<>>, <<"a">>, <<"B">>}

\* Array.prototype.includes
Includes(xs, x) == \E i \in 1..Len(xs) : xs[i] = x

\* Array.prototype.filter(f => f !== x)
RECURSIVE Without(_, _)
Without(xs, x) ==
  IF xs = <<>> THEN <<>>
  ELSE IF Head(xs) = x THEN Without(Tail(xs), x)
  ELSE <<Head(xs)>> \o Without(Tail(xs), x)

\* inchat_files as the file service reports it: its set, in all_files order
RECURSIVE Listing(_, _)
Listing(all, members) ==
  IF all = <<>> THEN <<>>
  ELSE IF Head(all) \in members THEN <<Head(all)>> \o Listing(Tail(all), members)
  ELSE Listing(Tail(all), members)

FMInit ==
  /\ files = <<>>
  /\ inchatFiles = <<>>
  /\ searchTerm = <<>>
  /\ fmIsLoading = TRUE
  /\ fmError = NoError
  /\ fmRendered = <<>>
  /\ fmFetchPending = TRUE
  /\ fmRequests = <<>>
  /\ serverInchat \in SUBSET Paths
  /\ fmRapid = [p \in Paths |-> [base |-> FALSE, issued |-> 0, acked |-> 0, ok |-> TRUE]]
  /\ fmLast = [kind |-> "mount", path |-> <<>>, outcome |-> "none"]

\* fetchFiles: the awaited api.getFiles() settles
FM_fetchFiles(outcome, response) ==
  /\ fmFetchPending
  /\ fmFetchPending' = FALSE
  /\ IF outcome = "throw"
     THEN /\ fmError' = "Error fetching files: Network Error"
          /\ UNCHANGED <<files, inchatFiles>>
     ELSE IF response.status = "success"
     THEN /\ files' = OrEmptyList(response.all_files)
          /\ inchatFiles' = OrEmptyList(response.inchat_files)
          /\ UNCHANGED fmError
     ELSE /\ fmError' = "Failed to fetch files"
          /\ UNCHANGED <<files, inchatFiles>>
  /\ fmIsLoading' = FALSE
  /\ UNCHANGED searchTerm

\* handleAddFile up to the await; `inchatFiles` is the rendered value
FM_handleAddFile(filename) ==
  /\ ~Includes(fmRendered, filename)
  /\ fmIsLoading' = TRUE
  /\ fmRequests' = Append(fmRequests, [op |-> "add", path |-> filename])
  /\ UNCHANGED <<files, inchatFiles, searchTerm, fmError>>

\* handleRemoveFile up to the await
FM_handleRemoveFile(filename) ==
  /\ Includes(fmRendered, filename)
  /\ fmIsLoading' = TRUE
  /\ fmRequests' = Append(fmRequests, [op |-> "remove", path |-> filename])
  /\ UNCHANGED <<files, inchatFiles, searchTerm, fmError>>

\* handleToggleFile
FM_handleToggleFile(filename) ==
  IF Includes(fmRendered, filename)
  THEN FM_handleRemoveFile(filename)
  ELSE FM_handleAddFile(filename)

\* handleAddFile after the await, were its updater to flip membership instead
\* of appending
FM_addFileSettled_Flips(filename, outcome) ==
  /\ inchatFiles' = IF outcome = "success"
                    THEN (IF Includes(inchatFiles, filename)
                          THEN Without(inchatFiles, filename)
                          ELSE Append(inchatFiles, filename))
                    ELSE inchatFiles
  /\ fmError' = IF outcome = "throw" THEN "Error adding file: Network Error"
                ELSE fmError
  /\ fmIsLoading' = FALSE
  /\ UNCHANGED <<files, searchTerm>>

\* handleAddFile after the await: outcome is "success", another status, or
\* "throw" (api.addFile rethrows the transport error)
FM_addFileSettled(filename, outcome) ==
  /\ inchatFiles' = IF outcome = "success" THEN Append(inchatFiles, filename)
                    ELSE inchatFiles
  /\ fmError' = IF outcome = "throw" THEN "Error adding file: Network Error"
                ELSE fmError
  /\ fmIsLoading' = FALSE
  /\ UNCHANGED <<files, searchTerm>>

\* handleRemoveFile after the await, were it to update the list on any answer
\* of the file service, whatever its status
FM_removeFileSettled_IgnoresStatus(filename, outcome) ==
  /\ inchatFiles' = IF outcome # "throw" THEN Without(inchatFiles, filename)
                    ELSE inchatFiles
  /\ fmError' = IF outcome = "throw" THEN "Error removing file: Network Error"
                ELSE fmError
  /\ fmIsLoading' = FALSE
  /\ UNCHANGED <<files, searchTerm>>

\* handleRemoveFile after the await
FM_removeFileSettled(filename, outcome) ==
  /\ inchatFiles' = IF outcome = "success" THEN Without(inchatFiles, filename)
                    ELSE inchatFiles
  /\ fmError' = IF outcome = "throw" THEN "Error removing file: Network Error"
                ELSE fmError
  /\ fmIsLoading' = FALSE
  /\ UNCHANGED <<files, searchTerm>>

\* String.prototype.toLowerCase, per character
LowerChar(c) == IF c = "A" THEN "a" ELSE IF c = "B" THEN "b" ELSE c
ToLowerCase(str) == [i \in 1..Len(str) |-> LowerChar(str[i])]

\* String.prototype.includes
StrIncludes(str, sub) ==
  \E i \in 0..(Len(str) - Len(sub)) :
     \A j \in 1..Len(sub) : str[i + j] = sub[j]

\* Array.prototype.filter with a predicate given as the set it accepts
RECURSIVE Filter(_, _)
Filter(xs, keep) ==
  IF xs = <<>> THEN <<>>
  ELSE IF Head(xs) \in keep THEN <<Head(xs)>> \o Filter(Tail(xs), keep)
  ELSE Filter(Tail(xs), keep)

\* filteredFiles as the older client/src/components/FileManager.jsx computes
\* it: the matching files in the order of `files`, in-chat or not
FilteredFiles_Unpartitioned(fs, inchat, term) ==
  Filter(fs, {f \in Paths : StrIncludes(ToLowerCase(f), ToLowerCase(term))})

\* filteredFiles of unnamed/part_001
FilteredFiles(fs, inchat, term) ==
  LET matching == {f \in Paths : StrIncludes(ToLowerCase(f), ToLowerCase(term))}
      matchingFiles == Filter(fs, matching)
      inChatMatching == Filter(matchingFiles, {f \in Paths : Includes(inchat, f)})
      notInChatMatching == Filter(matchingFiles, {f \in Paths : ~Includes(inchat, f)})
  IN inChatMatching \o notInChatMatching

\* the file list is on screen: neither the spinner nor the error panel
FMListShown == ~(fmIsLoading /\ Len(files) = 0) /\ fmError = NoError

(* ---- steps of the FileManager state machine ---- *)

FMFetchSettles ==
  /\ \E outcome \in {"ok", "throw"}, status \in {"success", "error"} :
       FM_fetchFiles(outcome,
                     [status |-> status, all_files |-> Present(ServerFiles),
                      inchat_files |-> Present(Listing(ServerFiles, serverInchat))])
  \* until now the spinner was on screen: the first handlers a user can
  \* reach are those of the render that shows the fetched lists
  /\ fmRendered' = inchatFiles'
  /\ fmLast' = [kind |-> "fetch", path |-> <<>>, outcome |-> "none"]
  /\ UNCHANGED <<fmRequests, serverInchat, fmRapid, notFM>>

\* a render commits: the handlers on screen now close over the current list
FMRender ==
  /\ fmRendered # inchatFiles
  /\ fmRendered' = inchatFiles
  /\ fmLast' = [kind |-> "render", path |-> <<>>, outcome |-> "none"]
  /\ UNCHANGED <<fmState, fmFetchPending, fmRequests, serverInchat, fmRapid, notFM>>

FMTypeSearch ==
  /\ FMListShown
  /\ \E t \in SearchTerms : t # searchTerm /\ searchTerm' = t
  /\ fmLast' = [kind |-> "search", path |-> <<>>, outcome |-> "none"]
  /\ UNCHANGED <<files, inchatFiles, fmIsLoading, fmError, fmRendered,
                 fmFetchPending, fmRequests, serverInchat, fmRapid, notFM>>

FMPendingOn(p) == \E i \in 1..Len(fmRequests) : fmRequests[i].path = p

\* the add/remove IconButton of a listed file
FMClickToggle ==
  /\ FMListShown
  /\ Len(fmRequests) < MaxRequests
  /\ \E i \in 1..Len(FilteredFiles(files, fmRendered, searchTerm)) :
       LET filename == FilteredFiles(files, fmRendered, searchTerm)[i]
       IN /\ FM_handleToggleFile(filename)
          /\ fmRapid' =
               [fmRapid EXCEPT ![filename] =
                  IF ~FMPendingOn(filename)
                  THEN [base |-> Includes(inchatFiles, filename), issued |-> 1,
                        acked |-> 0, ok |-> fmRendered = inchatFiles]
                  ELSE [@ EXCEPT !.issued = Counted(@), !.ok = @ /\ fmRapid[filename].acked = 0]]
          /\ fmLast' = [kind |-> "toggle", path |-> filename, outcome |-> "none"]
  /\ UNCHANGED <<fmRendered, fmFetchPending, serverInchat, notFM>>

\* the file service answers a request
FMRequestSettles ==
  /\ \E i \in 1..Len(fmRequests), outcome \in {"success", "error", "throw"} :
       LET req == fmRequests[i]
       IN /\ (req.op = "add" /\ outcome = "success") => Len(inchatFiles) < MaxInchat
          /\ IF req.op = "add"
             THEN FM_addFileSettled(req.path, outcome)
             ELSE FM_removeFileSettled(req.path, outcome)
          /\ fmRequests' = SubSeq(fmRequests, 1, i - 1)
                             \o SubSeq(fmRequests, i + 1, Len(fmRequests))
          /\ serverInchat' =
               IF outcome # "success" THEN serverInchat
               ELSE IF req.op = "add" THEN serverInchat \cup {req.path}
               ELSE serverInchat \ {req.path}
          /\ fmRapid' = [fmRapid EXCEPT ![req.path] =
                           [@ EXCEPT !.acked = Counted(@), !.ok = @ /\ outcome = "success"]]
          /\ fmLast' = [kind |-> "settled", path |-> req.path, outcome |-> outcome,
                        op |-> req.op]
  /\ UNCHANGED <<fmRendered, fmFetchPending, notFM>>

(***************************************************************************)
(* PRDAnalyzer.  client/src/components/PRDAnalyzer.jsx is the streaming   *)
(* version (the tasks arrive in a prd_processing_complete event); the      *)
(* second half of client/src/components/FileManager.jsx is the             *)
(* synchronous version (the tasks are the response of the request).        *)
(* paVariant says which one is mounted.  The cells progress, metadata,     *)
(* prdLoaded and notification of the synchronous version are written but   *)
(* read by no handler, and are left out.                                   *)
(***************************************************************************)
PAContents == {"", " ", "prd"}
PAStatuses == {"started", "analyzing_complexity", "generating_subtasks", "queued"}
PAErrorMessages == {"boom"}
PAVariants == {"streaming", "synchronous"}

\* what the Number of Tasks field can hold (e.target.value), as characters:
\* cleared, zero, below the range, in the range, its ends, above it,
\* negative, a fraction
NumTasksEntries ==
  { <<>>, <<"0">>, <<"2">>, <<"3">>, <<"1", "0">>, <<"1", "1">>,
    <<"-", "3">>, <<"4", ".", "7">> }

\* the decimal digits at the start of s, read as a number; Absent (NaN) when
\* s does not start with a digit
RECURSIVE ParseDigits(_, _, _)
ParseDigits(s, acc, seen) ==
  LET digits == <<"0", "1", "2", "3", "4", "5", "6", "7", "8", "9">>
      isDigit(c) == \E d \in 1..10 : digits[d] = c
      value(c) == (CHOOSE d \in 1..10 : digits[d] = c) - 1
  IN IF s = <<>> \/ ~isDigit(Head(s))
     THEN IF seen THEN Present(acc) ELSE Absent
     ELSE ParseDigits(Tail(s), acc * 10 + value(Head(s)), TRUE)

\* JavaScript parseInt(string): an optional sign, then digits up to the
\* first character that is not one
ParseInt(s) ==
  IF s # <<>> /\ Head(s) = "-"
  THEN LET n == ParseDigits(Tail(s), 0, FALSE)
       IN IF n.present THEN Present(0 - n.value) ELSE Absent
  ELSE IF s # <<>> /\ Head(s) = "+" THEN ParseDigits(Tail(s), 0, FALSE)
  ELSE ParseDigits(s, 0, FALSE)

\* onChange of the Number of Tasks field: parseInt(e.target.value) || 5
PA_setNumTasks(value) ==
  LET n == ParseInt(value)
  IN IF n.present /\ n.value # 0 THEN n.value ELSE 5

\* the step handleSubmitPRD moves the stepper to: setActiveStep(0) in the
\* streaming version, setActiveStep(1) in the synchronous one
PA_stepOnSubmit(variant) == IF variant = "synchronous" THEN 1 ELSE 0

Task(id, deps) == [id |-> id, dependencies |-> deps]
\* generated task lists: none, a chain, two tasks that depend on each other,
\* a task that depends on itself
TaskGraphs ==
  { <<>>,
    <<Task(1, <<>>), Task(2, <<1>>)>>,
    <<Task(1, <<2>>), Task(2, <<1>>)>>,
    <<Task(1, <<1>>)>> }

\* the dependency relation of a task list, as pairs <<task, dependency>>
DependsOn(ts) ==
  UNION {{<<ts[i].id, ts[i].dependencies[j]>> : j \in 1..Len(ts[i].dependencies)} :
           i \in 1..Len(ts)}

\* the ids reachable from `from` along at most n dependency edges
RECURSIVE ReachableIn(_, _, _)
ReachableIn(rel, from, n) ==
  IF n = 0 THEN {}
  ELSE LET next == {e[2] : e \in {d \in rel : d[1] \in from}}
       IN next \cup ReachableIn(rel, next, n - 1)

\* the dependency relation of the list contains a cycle
HasCycle(ts) ==
  \E i \in 1..Len(ts) :
     ts[i].id \in ReachableIn(DependsOn(ts), {ts[i].id}, Len(ts))

PAInit ==
  /\ paVariant \in PAVariants
  /\ paPrdContent = ""
  /\ paNumTasks = 5
  /\ paIsProcessing = FALSE
  /\ paActiveStep = 0
  /\ paProcessingStatus = ""
  /\ paTasks = <<>>
  /\ paError = NoError
  \* the synchronous version starts loadPRDContent when it opens
  /\ paLoadingPRD = (paVariant = "synchronous")
  /\ paLoadPending = (paVariant = "synchronous")
  /\ paPending = 0
  /\ paLast = [kind |-> "mount", session_id |-> SESSION_ID]

\* loadPRDContent (synchronous version): the awaited api.getPRDContent() settles
PA_loadPRDContent(outcome, response) ==
  /\ paLoadPending
  /\ paLoadPending' = FALSE
  /\ paPrdContent' =
       IF outcome = "ok" /\ response.status = "success" /\ response.prd_content # ""
       THEN response.prd_content
       ELSE paPrdContent
  /\ paLoadingPRD' = FALSE
  /\ UNCHANGED <<paIsProcessing, paActiveStep, paProcessingStatus, paTasks, paError>>

\* handleStatus (streaming version)
PA_handleStatus(data) ==
  IF data.session_id = SESSION_ID
  THEN /\ paProcessingStatus' = data.message
       /\ paActiveStep' =
            IF data.status = "started" THEN 1
            ELSE IF data.status = "analyzing_complexity" THEN 2
            ELSE IF data.status = "generating_subtasks" THEN 3
            ELSE paActiveStep
       /\ UNCHANGED <<paPrdContent, paIsProcessing, paTasks, paError, paLoadingPRD>>
  ELSE UNCHANGED paState

\* handleComplete (streaming version)
PA_handleComplete(data) ==
  IF data.session_id = SESSION_ID
  THEN /\ paTasks' = data.tasks
       /\ paActiveStep' = 4
       /\ paIsProcessing' = FALSE
       /\ UNCHANGED <<paPrdContent, paProcessingStatus, paError, paLoadingPRD>>
  ELSE UNCHANGED paState

\* handleError (streaming version)
PA_handleError(data) ==
  IF data.session_id = SESSION_ID
  THEN /\ paError' = data.message
       /\ paIsProcessing' = FALSE
       /\ UNCHANGED <<paPrdContent, paActiveStep, paProcessingStatus, paTasks,
                      paLoadingPRD>>
  ELSE UNCHANGED paState

\* handleSubmitPRD up to the await (both versions; the synchronous one moves
\* the stepper to 1 at once)
PA_handleSubmitPRD ==
  IF Trim(paPrdContent) = ""
  THEN /\ paError' = "PRD content cannot be empty"
       /\ UNCHANGED <<paPrdContent, paIsProcessing, paActiveStep,
                      paProcessingStatus, paTasks, paLoadingPRD, paPending>>
  ELSE /\ paError' = NoError
       /\ paIsProcessing' = TRUE
       /\ paProcessingStatus' = "Submitting PRD..."
       /\ paActiveStep' = PA_stepOnSubmit(paVariant)
       /\ paPending' = paPending + 1
       /\ UNCHANGED <<paPrdContent, paTasks, paLoadingPRD>>

\* handleSubmitPRD after the await.  Streaming version: nothing on success,
\* the catch block on a rejected request.  Synchronous version: the response
\* carries the tasks; a status other than success is thrown into the catch
\* block; isProcessing is released in the finally block.
PA_submitSettled(outcome, response) ==
  /\ paPending > 0
  /\ paPending' = paPending - 1
  /\ IF paVariant = "streaming"
     THEN IF outcome = "ok"
          THEN UNCHANGED <<paError, paIsProcessing, paTasks, paActiveStep,
                           paProcessingStatus>>
          ELSE /\ paError' = "Failed to submit PRD. Please try again."
               /\ paIsProcessing' = FALSE
               /\ UNCHANGED <<paTasks, paActiveStep, paProcessingStatus>>
     ELSE /\ IF outcome = "ok" /\ response.status = "success"
             THEN /\ paTasks' = response.tasks
                  /\ paActiveStep' = 4
                  /\ paProcessingStatus' = "Analysis complete"
                  /\ UNCHANGED paError
             ELSE /\ paError' = IF outcome = "ok"
                                THEN "Failed to analyze PRD: Failed to analyze PRD"
                                ELSE "Failed to analyze PRD: Network Error"
                  /\ UNCHANGED <<paTasks, paActiveStep, paProcessingStatus>>
          /\ paIsProcessing' = FALSE
  /\ UNCHANGED <<paPrdContent, paLoadingPRD>>

\* the awaited request ends in the catch block: it was rejected, or (in the
\* synchronous version) its response does not have status success
PA_submitFailed(outcome, status) ==
  outcome = "throw" \/ (paVariant = "synchronous" /\ status # "success")

(* ---- steps of the PRDAnalyzer state machine ---- *)

PALoadSettles ==
  /\ \E outcome \in {"ok", "throw"}, status \in {"success", "error"},
        content \in {"", "prd"} :
       PA_loadPRDContent(outcome, [status |-> status, prd_content |-> content])
  /\ paLast' = [kind |-> "load", session_id |-> SESSION_ID]
  /\ UNCHANGED <<paVariant, paNumTasks, paPending, notPA>>

\* the PRD Content field of step 0
PATypeContent ==
  /\ paActiveStep = 0
  /\ ~paLoadingPRD
  /\ \E c \in PAContents : c # paPrdContent /\ paPrdContent' = c
  /\ paLast' = [kind |-> "type", session_id |-> SESSION_ID]
  /\ UNCHANGED <<paVariant, paNumTasks, paIsProcessing, paActiveStep,
                 paProcessingStatus, paTasks, paError, paLoadingPRD,
                 paLoadPending, paPending, notPA>>

\* the Number of Tasks field of step 0
PATypeNumTasks ==
  /\ paActiveStep = 0
  /\ ~paLoadingPRD
  /\ \E v \in NumTasksEntries :
       /\ PA_setNumTasks(v) # paNumTasks
       /\ paNumTasks' = PA_setNumTasks(v)
  /\ paLast' = [kind |-> "type", session_id |-> SESSION_ID]
  /\ UNCHANGED <<paVariant, paState, paLoadPending, paPending, notPA>>

\* the Analyze PRD button: rendered at step 0, disabled while processing
\* (and, in the synchronous version, while the PRD is loading)
PAClickAnalyze ==
  /\ paActiveStep = 0
  /\ ~(paIsProcessing \/ paLoadingPRD)
  /\ paPending < MaxPending
  /\ PA_handleSubmitPRD
  /\ paLast' = [kind |-> "submit", session_id |-> SESSION_ID]
  /\ UNCHANGED <<paVariant, paNumTasks, paLoadPending, notPA>>

PASubmitSettles ==
  /\ \E outcome \in {"ok", "throw"}, status \in {"success", "error"},
        ts \in TaskGraphs :
       /\ PA_submitSettled(outcome, [status |-> status, tasks |-> ts])
       /\ paLast' = [kind |-> IF PA_submitFailed(outcome, status)
                              THEN "submit_failed" ELSE "settled",
                     session_id |-> SESSION_ID, tasks |-> ts]
  /\ UNCHANGED <<paVariant, paNumTasks, paLoadPending, notPA>>

PAStatus ==
  /\ paVariant = "streaming"
  /\ \E sid \in SessionIds, st \in PAStatuses :
       /\ PA_handleStatus([session_id |-> sid, status |-> st, message |-> st])
       /\ paLast' = [kind |-> "prd_processing_status", session_id |-> sid]
  /\ UNCHANGED <<paVariant, paNumTasks, paLoadPending, paPending, notPA>>

PAComplete ==
  /\ paVariant = "streaming"
  /\ \E sid \in SessionIds, ts \in TaskGraphs :
       /\ PA_handleComplete([session_id |-> sid, tasks |-> ts])
       /\ paLast' = [kind |-> "prd_processing_complete", session_id |-> sid,
                     tasks |-> ts]
  /\ UNCHANGED <<paVariant, paNumTasks, paLoadPending, paPending, notPA>>

PAError ==
  /\ paVariant = "streaming"
  /\ \E sid \in SessionIds, m \in PAErrorMessages :
       /\ PA_handleError([session_id |-> sid, message |-> m])
       /\ paLast' = [kind |-> "error", session_id |-> sid]
  /\ UNCHANGED <<paVariant, paNumTasks, paLoadPending, paPending, notPA>>

PANext ==
  \/ PALoadSettles
  \/ PATypeContent
  \/ PATypeNumTasks
  \/ PAClickAnalyze
  \/ PASubmitSettles
  \/ PAStatus
  \/ PAComplete
  \/ PAError

(***************************************************************************)
(* Specifications: one per component, the other components idle.           *)
(***************************************************************************)
\* a component nobody interacts with stays as mounted
CIIdle == CIInit /\ ciVariant = "sse"
FMIdle == FMInit /\ serverInchat = {}
PAIdle == PAInit /\ paVariant = "streaming"

\* PrdGenerator, the workflow: every event and button but the per-task events
PGNext ==
  \/ PGPrdChunk
  \/ PGPrdComplete
  \/ PGTasksChunk
  \/ PGTasksComplete
  \/ PGTasksExecutionStarted
  \/ PGTasksExecutionCompleted
  \/ PGTypeDescription
  \/ PGClickGeneratePRD
  \/ PGClickGenerateTasks
  \/ PGClickExecuteTasks
  \/ PGRequestSettles

\* PrdGenerator, the execution tracker: the events of an execution, from the
\* empty taskResults that mounting and handleExecuteTasks both produce
PGTrackerNext ==
  \/ PGTaskStarted
  \/ PGTaskChunk
  \/ PGTaskCompleted
  \/ PGTasksExecutionStarted
  \/ PGTasksExecutionCompleted

\* PrdGenerator, an execution inside the workflow: the task list arrives,
\* Execute Tasks is clicked, the events of the execution are handled
PGExecutionNext ==
  \/ PGTasksComplete
  \/ PGClickExecuteTasks
  \/ PGRequestSettles
  \/ PGTaskStarted
  \/ PGTaskChunk
  \/ PGTaskCompleted
  \/ PGTasksExecutionStarted
  \/ PGTasksExecutionCompleted

FMNext ==
  \/ FMFetchSettles
  \/ FMRender
  \/ FMTypeSearch
  \/ FMClickToggle
  \/ FMRequestSettles

\* Every component is mounted; each specification runs one of them and
\* leaves the others as mounted.
InitChat == CIInit /\ TCInit /\ PGInit /\ FMIdle /\ PAIdle
InitIdle == CIIdle /\ TCInit /\ PGInit /\ FMIdle /\ PAIdle
InitFile == CIIdle /\ TCInit /\ PGInit /\ FMInit /\ PAIdle
InitAnalyzer == CIIdle /\ TCInit /\ PGInit /\ FMIdle /\ PAInit

SpecChat == InitChat /\ [][CINext]_vars
\* ChatInterface with what the runtime guarantees: an awaited request
\* settles, and the effect that re-registers the handlers runs after the
\* render that changed streamingContent.  Events are the server's to send:
\* none is forced.
SpecChatFair ==
  /\ InitChat
  /\ [][CINext]_vars
  /\ WF_vars(CIInitSessionSettles)
  /\ WF_vars(CISendSettles)
  /\ WF_vars(CIResubscribe)
SpecTest == InitIdle /\ [][TCNext]_vars
SpecPrd == InitIdle /\ [][PGNext]_vars
SpecTasks == InitIdle /\ [][PGTrackerNext]_vars
SpecExecution == InitIdle /\ [][PGExecutionNext]_vars
SpecFile == InitFile /\ [][FMNext]_vars
SpecAnalyzer == InitAnalyzer /\ [][PANext]_vars

(***************************************************************************)
(* The workflow stage of PrdGenerator, read off its state.                 *)
(***************************************************************************)
Stage ==
  IF activeStep = 3 /\ executionComplete THEN "ExecutionComplete"
  ELSE IF activeStep = 3 THEN (IF loading THEN "Executing" ELSE "TasksReady")
  ELSE IF activeStep = 2 THEN (IF loading THEN "GeneratingTasks" ELSE "PRDReady")
  ELSE (IF loading THEN "GeneratingPRD" ELSE "Describing")

(***************************************************************************)
(* Properties.                                                             *)
(***************************************************************************)

\* C1: when message_complete of the client's own session is handled after a
\* non-empty run of chunks, the step appends one assistant message whose
\* content is the concatenation of the delivered chunks, in delivery order,
\* whether or not the handlers were re-subscribed after the last chunk.
C1_CompleteAppendsConcatenation ==
  [][(/\ ciLast'.kind = "message_complete"
      /\ ciLast'.session_id = SESSION_ID
      /\ ciDelivered # <<>>)
     => ciMessages' = Append(ciMessages, Msg("assistant", ciDelivered))]_vars

\* C2: an event that carries another session's id changes no state variable
\* of the component that receives it (ChatInterface, TestConnection,
\* PrdGenerator).
C2_ForeignEventsIgnored ==
  [][/\ (ciLast'.session_id # SESSION_ID => UNCHANGED ciState)
     /\ (tcLast'.session_id # SESSION_ID => UNCHANGED tcState)
     /\ (pgLast'.session_id # SESSION_ID => UNCHANGED pgState)]_vars

\* C3: the workflow never regresses: a prd_complete handled at TasksReady or
\* ExecutionComplete, or a tasks_complete handled at ExecutionComplete,
\* changes none of activeStep, prd, tasks, error, streamingContent, loading.
C3_NoRegression ==
  [][(\/ /\ pgLast'.kind = "prd_complete"
         /\ Stage \in {"TasksReady", "ExecutionComplete"}
      \/ /\ pgLast'.kind = "tasks_complete"
         /\ Stage = "ExecutionComplete")
     => UNCHANGED <<activeStep, prd, tasks, pgError, pgStreamingContent, loading>>]_vars

\* C4: two toggles of one path, the first issued from a settled and rendered
\* view, the second before the first was acknowledged, both acknowledged with
\* success, leave the path's membership the opposite of what it was.
C4_RapidTogglesFlipOnce ==
  \A p \in Paths :
    (fmRapid[p].issued = 2 /\ fmRapid[p].acked = 2 /\ fmRapid[p].ok)
      => (Includes(inchatFiles, p) # fmRapid[p].base)

\* C4 witness: a path was added by two rapid toggles, both acknowledged.
C4_Witness ==
  \E p \in Paths :
    /\ fmRapid[p].issued = 2 /\ fmRapid[p].acked = 2 /\ fmRapid[p].ok
    /\ ~fmRapid[p].base
    /\ fmLast.kind = "settled" /\ fmLast.path = p

\* C5: right after prd_complete{prd} of the client's own session, the stored
\* PRD is the payload's prd, activeStep is 2 and loading is false, whatever
\* was streamed before.
C5_PrdCompleteStoresPayload ==
  pgLast.kind = "prd_complete"
    => (prd = pgLast.data.prd /\ activeStep = 2 /\ loading = FALSE)

\* C5 witness: prd_complete was handled after chunks whose concatenation is
\* not the payload's prd.
C5_Witness ==
  /\ pgLast.kind = "prd_complete"
  /\ Len(pgStreamingContent) = 2
  /\ pgStreamingContent # pgLast.data.prd
  /\ prd = <<"c">>

\* C6: right after a tasks_complete of the client's own session that carries
\* tasks_text and no tasks, the stage is TasksReady (activeStep 3, loading
\* false), the task list is empty and an error is set.
C6_UnparsedTasksLeaveNoTasks ==
  (/\ pgLast.kind = "tasks_complete"
   /\ ~pgLast.data.tasks.present
   /\ Truthy(OrEmpty(pgLast.data.tasks_text)))
    => (activeStep = 3 /\ loading = FALSE /\ tasks = <<>> /\ pgError # NoError)

\* C7: right after task_completed{task_result} for a name that has an entry,
\* the entry found by that name is exactly the payload with status completed:
\* the streamed text is replaced, not kept and not concatenated.
C7_TaskCompletedReplacesEntry ==
  pgLast.kind = "task_completed"
    => LET r == pgLast.data.task_result
           index == FindIndex(taskResults, r.task_name)
       IN index # 0
            => taskResults[index] =
                 [task_name |-> r.task_name, result |-> r.result,
                  commit_hash |-> r.commit_hash, commit_message |-> r.commit_message,
                  edited_files |-> r.edited_files, status |-> "completed"]

\* C7 witness: task_completed replaced an entry that had streamed text.
C7_Witness ==
  /\ pgLast.kind = "task_completed"
  /\ FindIndex(taskResults, pgLast.data.task_result.task_name) # 0
  /\ "streamed" \in DOMAIN pgLast
  /\ Len(pgLast.streamed) = 2
  /\ taskResults[FindIndex(taskResults, pgLast.data.task_result.task_name)].result
       = <<"done">>

\* C8: a task_chunk whose task_name has no entry with status running changes
\* no entry of taskResults.
C8_ChunkWithoutRunningEntryDropped ==
  [][(/\ pgLast'.kind = "task_chunk"
      /\ ~\E i \in 1..Len(taskResults) :
            /\ taskResults[i].task_name = pgLast'.data.task_name
            /\ taskResults[i].status = "running")
     => UNCHANGED taskResults]_vars

\* C9: message_complete of the client's own session handled with an empty
\* streaming buffer appends exactly one assistant message with empty content
\* and releases isLoading.
C9_CompleteWithoutChunks ==
  [][(/\ ciLast'.kind = "message_complete"
      /\ ciLast'.session_id = SESSION_ID
      /\ ciStreamingContent = <<>>
      /\ ciDelivered = <<>>)
     => (/\ ciMessages' = Append(ciMessages, Msg("assistant", <<>>))
         /\ ciIsLoading' = FALSE)]_vars

\* C10: after the initial fetch, inchatFiles changes only in the step that
\* acknowledges an add/remove request with status success; an acknowledgement
\* that fails (a thrown error, or a status other than success) leaves
\* inchatFiles unchanged and sets the error.
C10_UpdateOnlyOnSuccessElseError ==
  [][/\ (inchatFiles' # inchatFiles /\ fmLast'.kind # "fetch")
          => (fmLast'.kind = "settled" /\ fmLast'.outcome = "success")
     /\ (fmLast'.kind = "settled" /\ fmLast'.outcome # "success")
          => (inchatFiles' = inchatFiles /\ fmError' # NoError)]_vars

\* C11: at most one request of each operation kind is in flight at any time:
\* one send message, one generate PRD, one generate tasks, one execute tasks,
\* and per file path one add/remove request.
C11_AtMostOneInFlight ==
  /\ ciSendPending <= 1
  /\ \A kind \in DOMAIN pgPending : pgPending[kind] <= 1
  /\ \A p \in Paths :
       Cardinality({i \in 1..Len(fmRequests) : fmRequests[i].path = p}) <= 1

\* C12: no stage of the PrdGenerator workflow is skipped: every step leaves
\* the stage where it is or moves it to the next one in the order Describing,
\* GeneratingPRD, PRDReady, GeneratingTasks, TasksReady, Executing,
\* ExecutionComplete.
C12_NoStageSkipped ==
  [][LET rank(s) == CASE s = "Describing" -> 0
                      [] s = "GeneratingPRD" -> 1
                      [] s = "PRDReady" -> 2
                      [] s = "GeneratingTasks" -> 3
                      [] s = "TasksReady" -> 4
                      [] s = "Executing" -> 5
                      [] s = "ExecutionComplete" -> 6
     IN rank(Stage') <= rank(Stage) + 1]_vars

\* C13: a failure is surfaced and the operation can be submitted again.  A
\* rejected send appends an error message and releases isLoading; a rejected
\* generate PRD / generate tasks / execute tasks request sets the error,
\* releases loading and leaves the step where its button is; an unparsed
\* tasks_complete (tasks_text, no tasks) that answers Generate Tasks sets the
\* error, releases loading and leaves the workflow on step 2, where Generate
\* Tasks can be clicked again.
C13_FailureSurfacedAndRetryable ==
  [][/\ ciLast'.kind = "send_failed"
          => (/\ ciMessages' # <<>>
              /\ ciMessages'[Len(ciMessages')].role = "error"
              /\ ciIsLoading' = FALSE)
     /\ pgLast'.kind = "request_failed"
          => (pgError' # NoError /\ loading' = FALSE /\ UNCHANGED activeStep)
     /\ (/\ Stage = "GeneratingTasks"
         /\ pgLast'.kind = "tasks_complete"
         /\ ~pgLast'.data.tasks.present
         /\ Truthy(OrEmpty(pgLast'.data.tasks_text)))
          => (pgError' # NoError /\ loading' = FALSE /\ activeStep' = 2)]_vars

\* C14: a message is immutable once appended: every step of ChatInterface
\* leaves the history it found as a prefix of the history it produces.
C14_HistoryOnlyGrows ==
  [][/\ Len(ciMessages') >= Len(ciMessages)
     /\ SubSeq(ciMessages', 1, Len(ciMessages)) = ciMessages]_vars

C16_DisplayIsStablePartition ==
  LET shown == FilteredFiles(files, inchatFiles, searchTerm)
      matches(f) == StrIncludes(ToLowerCase(f), ToLowerCase(searchTerm))
      inChat(f) == Includes(inchatFiles, f)
      pos(f) == CHOOSE i \in 1..Len(files) : files[i] = f
  IN /\ \A i \in 1..Len(shown) : Includes(files, shown[i]) /\ matches(shown[i])
     /\ \A i \in 1..Len(files) : matches(files[i]) => Includes(shown, files[i])
     /\ Len(shown) = Cardinality({i \in 1..Len(files) : matches(files[i])})
     /\ \A i, j \in 1..Len(shown) :
          i < j => /\ inChat(shown[j]) => inChat(shown[i])
                   /\ (inChat(shown[i]) = inChat(shown[j]))
                        => pos(shown[i]) < pos(shown[j])

\* C16 witness: both files match, only the second one is in chat, and the
\* list on screen shows it first.
C16_Witness ==
  /\ FMListShown
  /\ Len(files) = 2
  /\ Includes(inchatFiles, files[2])
  /\ ~Includes(inchatFiles, files[1])
  /\ FilteredFiles(files, inchatFiles, searchTerm) = <<files[2], files[1]>>

\* C17: a generated task list whose dependency relation has a cycle is
\* flagged when it is received: right after the list is stored (by
\* prd_processing_complete, or by the response of the synchronous request),
\* the list is exposed and, if it has a cycle, the error is set.
C17_CyclicTaskListFlagged ==
  (/\ paLast.kind \in {"prd_processing_complete", "settled"}
   /\ paLast.session_id = SESSION_ID
   /\ paActiveStep = 4
   /\ HasCycle(paTasks))
    => paError # NoError

\* C18: taskResults never holds two entries with status running for the same
\* task_name.
C18_OneRunningEntryPerTask ==
  \A i, j \in 1..Len(taskResults) :
    (/\ i # j
     /\ taskResults[i].task_name = taskResults[j].task_name
     /\ taskResults[i].status = "running")
      => taskResults[j].status # "running"

\* C19: a completion event of the client's own session clears the buffer of
\* its stream: right after message_complete the chat buffer is empty, and
\* right after prd_complete or tasks_complete the PrdGenerator buffer is
\* empty.
C19_CompletionClearsBuffer ==
  /\ (ciLast.kind = "message_complete" /\ ciLast.session_id = SESSION_ID)
       => ciStreamingContent = <<>>
  /\ pgLast.kind \in {"prd_complete", "tasks_complete"}
       => pgStreamingContent = <<>>

\* C20: chunks of different stream kinds never share a buffer: the PrdGenerator
\* buffer never holds a chunk of the PRD stream together with a chunk of the
\* task-list stream.
C20_KindsDoNotShareBuffer ==
  ~(/\ \E c \in PrdChunkInputs : Includes(pgStreamingContent, c)
    /\ \E c \in TaskListChunkInputs : Includes(pgStreamingContent, c))

\* C21: the streaming and the synchronous PRD task generation end alike.  A
\* successful run (prd_processing_complete of the own session, or the
\* successful response of the synchronous request) ends with activeStep 4,
\* the delivered tasks, isProcessing false and no error; a submission whose
\* request fails ends with isProcessing false, the error set, and the same
\* activeStep whichever version ran it.
C21_VariantsEndAlike ==
  [][/\ (/\ \/ /\ paVariant = "streaming"
               /\ paLast'.kind = "prd_processing_complete"
               /\ paLast'.session_id = SESSION_ID
            \/ /\ paVariant = "synchronous"
               /\ paLast'.kind = "settled"
         /\ paIsProcessing
         /\ paError = NoError)
          => (/\ paActiveStep' = 4
              /\ paTasks' = paLast'.tasks
              /\ ~paIsProcessing'
              /\ paError' = NoError)
     /\ (paLast.kind = "submit" /\ paLast'.kind = "submit_failed")
          => (/\ ~paIsProcessing'
              /\ paError' # NoError
              /\ \A v \in PAVariants : paActiveStep' = PA_stepOnSubmit(v))
    ]_vars

\* C22: the task count passed to generateTasksFromPRD is an integer from 3 to
\* 10, and an empty or unparsable field gives 5.
C22_NumTasksInRange ==
  [][/\ (paLast'.kind = "submit" /\ paPending' = paPending + 1)
          => paNumTasks \in 3..10
     /\ \A v \in NumTasksEntries :
          ~ParseInt(v).present => PA_setNumTasks(v) = 5
    ]_vars

\* C23: a buffer left open by an abandoned stream is safely resumable.  When
\* a message was sent while chunks of an earlier stream were still buffered,
\* and message_complete of the own session is handled after chunks of the new
\* stream (the handlers being subscribed to the current buffer), the
\* assistant message appended consists of the chunks delivered since the send
\* and of nothing else.
C23_FreshSendStartsAfresh ==
  [][(/\ ciLast'.kind = "message_complete"
      /\ ciLast'.session_id = SESSION_ID
      /\ ciIsLoading
      /\ ciSubscribed = ciStreamingContent
      /\ Len(ciDelivered) > ciOpenAtSend)
     => ciMessages' =
          Append(ciMessages,
                 Msg("assistant",
                     SubSeq(ciDelivered, ciOpenAtSend + 1, Len(ciDelivered))))
    ]_vars

\* the Analyze PRD button is rendered and enabled
PAAnalyzeAvailable == paActiveStep = 0 /\ ~(paIsProcessing \/ paLoadingPRD)

\* C24: no error state is absorbing: an error leaves the client a way to
\* issue a fresh request.  While a FileManager error is set the file list
\* with its toggles is still rendered, and right after a failed PRD analysis
\* the Analyze PRD button is available.
C24_ErrorLeavesRetryAvailable ==
  /\ fmError # NoError => FMListShown
  /\ paLast.kind = "submit_failed" => PAAnalyzeAvailable

\* C25: execution cannot proceed from an unparsed task list, and a handler
\* without its input issues no request.  The step that follows a
\* tasks_complete of the own session carrying tasks_text and no tasks issues
\* no execute request; an execute request is issued only with a non-empty
\* task list, a generate-PRD request only with a non-blank description, a
\* generate-tasks request only with a non-blank PRD.
C25_NoRequestWithoutInput ==
  [][/\ (/\ pgLast.kind = "tasks_complete"
         /\ ~pgLast.data.tasks.present
         /\ Truthy(OrEmpty(pgLast.data.tasks_text)))
          => pgPending'["executeTasks"] <= pgPending["executeTasks"]
     /\ pgPending'["executeTasks"] > pgPending["executeTasks"]
          => Len(tasks) # 0
     /\ pgPending'["generatePRD"] > pgPending["generatePRD"]
          => Trim(projectDescription) # ""
     /\ pgPending'["generateTasks"] > pgPending["generateTasks"]
          => Truthy(prd)
    ]_vars

\* C26: in PrdGenerator activeStep only takes the values 0, 2 and 3; the
\* results view of step 4 is never reached, whatever events of an execution
\* arrive after Execute Tasks.
C26_StepIsNeverResults == activeStep \in {0, 2, 3}

\* an execution that was submitted from step 3 has run to its end: entries
\* were started and completed, tasks_execution_completed was handled
C26_Witness ==
  /\ activeStep = 3
  /\ pgPending["executeTasks"] > 0
  /\ executionComplete
  /\ \E i \in 1..Len(taskResults) : taskResults[i].status = "completed"

\* C28: the update handleTaskChunk performs is one application of a pure
\* updater, however often React invokes it: handling a task_chunk of the own
\* session takes taskResults to the value a single application of the
\* updater to the previous taskResults gives, the fragment appended once to
\* the matching entry.
C28_ChunkAppendedOnce ==
  [][pgLast'.kind = "task_chunk"
       => \E c \in TaskChunkInputs :
            taskResults' =
              TaskChunkUpdater(taskResults,
                               [task_name |-> pgLast'.data.task_name, chunk |-> c])
    ]_vars

\* C27: inchatFiles never holds the same path twice, so the count shown on
\* the files-in-chat chip is the number of distinct paths in the chat.
C27_InchatFilesDistinct ==
  /\ \A i, j \in 1..Len(inchatFiles) :
        inchatFiles[i] = inchatFiles[j] => i = j
  /\ Len(inchatFiles) = Cardinality({inchatFiles[i] : i \in 1..Len(inchatFiles)})

\* C29: in the streaming PRDAnalyzer the stepper never moves back between a
\* submission and its completion, nor from Results afterwards: while
\* isProcessing is set, or at step 4, no event (a prd_processing_status
\* delivered out of order, or after prd_processing_complete) takes activeStep
\* to an earlier step.
C29_StepperNeverMovesBack ==
  [][(/\ paVariant = "streaming"
      /\ paLast'.kind # "submit"
      /\ paIsProcessing \/ paActiveStep = 4)
       => paActiveStep' >= paActiveStep]_vars

\* C30: once the server has delivered the terminal event of the own session
\* (message_complete or error) and no send is still awaiting its response,
\* isLoading is eventually released.
C30_LoadingEventuallyReleased ==
  (/\ ciLast.kind \in {"message_complete", "error"}
   /\ ciLast.session_id = SESSION_ID
   /\ ciSendPending = 0)
    ~> ~ciIsLoading

====
